---- MODULE Spec2Model ----
\* A model of jieba-rs (src/src/lib.rs): the dictionary store (load_dict), the
\* DAG builder (dag), the route solver (calc), the two block segmenters
\* (cut_dag_no_hmm, cut_dag_hmm) and the driver (cut) with its splitter
\* (SplitCaptures over RE_HAN_DEFAULT and RE_SKIP_DEAFULT).
\*
\* A string is a sequence of Unicode scalar values.  Positions inside a
\* sentence are the 0-based character indices of the code (char_indices);
\* byte offsets are only ever taken from char_indices, so slicing by bytes
\* in the code is slicing by characters here.
\*
\* An f64 log-probability is one of -inf, +inf, NaN or the finite value
\* ln(p/q), held as the pair (p, q); sums multiply the pairs and comparisons
\* cross-multiply, i.e. finite arithmetic is exact (no rounding).
EXTENDS Integers, Sequences, FiniteSets, TLC

VARIABLES
    freq,      \* Jieba.freq: the trie, a function from its keys to frequencies
    total,     \* Jieba.total
    pc,        \* "new" | "ready" | "loaded" | "done" | "aborted"
    stream,    \* argument of the last load_dict call
    ret,       \* how the last load_dict call ended: "Ok" | "Err" | "Panic"
    sentence,  \* argument of the last cut call
    hmm,       \* argument of the last cut call
    words,     \* result of the last cut call
    blocks     \* per non-empty block of the last cut call: what the loop body did

vars == <<freq, total, pc, stream, ret, sentence, hmm, words, blocks>>

\* ---------------------------------------------------------------- bounds
MaxLen == 3      \* longest sentence handed to cut
MaxLines == 2    \* longest dictionary stream

\* ------------------------------------------------------------ characters
\* a b, U+4E2D, - \r \n
Alphabet == {97, 98, 20013, 45, 13, 10}

IsHan(c) == c >= 19968 /\ c <= 40917

is_ascii_alphanumeric(c) ==
    \/ (c >= 48 /\ c <= 57)
    \/ (c >= 65 /\ c <= 90)
    \/ (c >= 97 /\ c <= 122)

\* the character class of RE_HAN_DEFAULT: [\u{4E00}-\u{9FD5}a-zA-Z0-9+#&\._%]
HanClass(c) == IsHan(c) \/ is_ascii_alphanumeric(c) \/ c \in {43, 35, 38, 46, 95, 37}

\* \s of the regex crate and char::is_whitespace: Unicode White_Space
IsWhitespace(c) ==
    \/ (c >= 9 /\ c <= 13)
    \/ c \in {32, 133, 160, 5760, 8232, 8233, 8239, 8287, 12288}
    \/ (c >= 8192 /\ c <= 8202)

\* --------------------------------------------------------------- strings
\* s[a..b) in 0-based character indices
Slice(s, a, b) == SubSeq(s, a + 1, b)

RECURSIVE Concat(_)
Concat(ss) == IF ss = <<>> THEN <<>> ELSE Head(ss) \o Concat(Tail(ss))

Strings(n) == UNION {[1..k -> Alphabet] : k \in 0..n}

\* ------------------------------------------------------- dictionary file
\* A dictionary stream is a sequence of lines, each as read_line returns it
\* (terminator included).  A line holding bytes that are not UTF-8 is a line
\* with a negative scalar: read_line fails on it.
Line(word, digits) == word \o <<32>> \o digits \o <<10>>

GoodLines ==
    { Line(<<97>>, <<51>>),             \* "a 3"
      Line(<<97, 98>>, <<49>>),         \* "ab 1"
      Line(<<97, 98, 97>>, <<50>>),     \* "aba 2"
      Line(<<97, 98>>, <<48>>) }        \* "ab 0"

BadLines ==
    { <<97, 98, 10>>,                   \* "ab": no frequency field
      Line(<<97>>, <<120>>) }           \* "a x": frequency is not a number

UnreadableLines == { <<-1>> }

Lines == GoodLines \cup BadLines \cup UnreadableLines

Streams == UNION {[1..k -> Lines] : k \in 0..MaxLines}

read_line_fails(line) == \E i \in 1..Len(line) : line[i] < 0

RECURSIVE trim_start(_)
trim_start(s) ==
    IF s # <<>> /\ IsWhitespace(Head(s)) THEN trim_start(Tail(s)) ELSE s

RECURSIVE trim_end(_)
trim_end(s) ==
    IF s # <<>> /\ IsWhitespace(s[Len(s)])
    THEN trim_end(SubSeq(s, 1, Len(s) - 1))
    ELSE s

trim(s) == trim_end(trim_start(s))

\* str::split(sep): the pieces between the separators, at least one piece
RECURSIVE split(_, _)
split(s, sep) ==
    IF \E i \in 1..Len(s) : s[i] = sep
    THEN LET i == CHOOSE i \in 1..Len(s) : s[i] = sep /\ \A j \in 1..(i - 1) : s[j] # sep
         IN  <<SubSeq(s, 1, i - 1)>> \o split(SubSeq(s, i + 1, Len(s)), sep)
    ELSE <<s>>

RECURSIVE digits_value(_, _)
digits_value(s, acc) ==
    IF s = <<>> THEN acc ELSE digits_value(Tail(s), acc * 10 + (Head(s) - 48))

\* str::parse::<usize>: an optional '+', then one or more decimal digits
\* (the values here stay far below usize::MAX)
parse_usize(s) ==
    LET d == IF s # <<>> /\ Head(s) = 43 THEN Tail(s) ELSE s
    IN  IF d # <<>> /\ \A i \in 1..Len(d) : d[i] >= 48 /\ d[i] <= 57
        THEN [ok |-> TRUE, val |-> digits_value(d, 0)]
        ELSE [ok |-> FALSE, val |-> 0]

\* ------------------------------------------------------------- the trie
trie_get_is_some(F, key) == key \in DOMAIN F

trie_insert(F, key, value) ==
    [w \in DOMAIN F \cup {key} |-> IF w = key THEN value ELSE F[w]]

\* insert_prefixes without the is_none test: a placeholder is written over
\* whatever the trie holds for the prefix
RECURSIVE insert_prefixes_overwriting(_, _, _)
insert_prefixes_overwriting(F, word, i) ==
    IF i >= Len(word)
    THEN F
    ELSE insert_prefixes_overwriting(trie_insert(F, Slice(word, 0, i), 0), word, i + 1)

\* lines 123-131: every strict non-empty prefix that is absent gets frequency 0
RECURSIVE insert_prefixes(_, _, _)
insert_prefixes(F, word, i) ==
    IF i >= Len(word)
    THEN F
    ELSE LET wfrag == Slice(word, 0, i)
         IN  insert_prefixes(IF ~trie_get_is_some(F, wfrag)
                             THEN trie_insert(F, wfrag, 0)
                             ELSE F,
                             word, i + 1)

\* the while loop of load_dict over the remaining lines; tot is the local total
RECURSIVE load_loop(_, _, _)
load_loop(F, tot, dict) ==
    IF dict = <<>>
    THEN [freq |-> F, total |-> tot, ret |-> "Ok"]
    ELSE IF read_line_fails(Head(dict))
    THEN [freq |-> F, total |-> tot, ret |-> "Err"]
    ELSE LET parts == split(trim(Head(dict)), 32)
         IN  IF Len(parts) < 2
             THEN [freq |-> F, total |-> tot, ret |-> "Panic"]
             ELSE LET parsed == parse_usize(parts[2])
                      word == parts[1]
                  IN  IF ~parsed.ok
                      THEN [freq |-> F, total |-> tot, ret |-> "Panic"]
                      ELSE load_loop(
                               insert_prefixes(trie_insert(F, word, parsed.val), word, 1),
                               tot + parsed.val,
                               Tail(dict))

\* self.total is assigned only when the loop has run to the end of the stream
load_dict(F, selfTotal, dict) ==
    LET r == load_loop(F, 0, dict)
    IN  [freq |-> r.freq,
         total |-> IF r.ret = "Ok" THEN r.total ELSE selfTotal,
         ret |-> r.ret]

\* ------------------------------------------------------------------ f64
NegInf == [k |-> "ninf", p |-> 0, q |-> 0]
PosInf == [k |-> "pinf", p |-> 0, q |-> 0]
NaN == [k |-> "nan", p |-> 0, q |-> 0]
Fin(p, q) == [k |-> "fin", p |-> p, q |-> q]
Zero == Fin(1, 1)

\* (n as f64).ln()
ln(n) == IF n = 0 THEN NegInf ELSE Fin(n, 1)

f64_neg(x) ==
    CASE x.k = "fin" -> Fin(x.q, x.p)
      [] x.k = "ninf" -> PosInf
      [] x.k = "pinf" -> NegInf
      [] OTHER -> NaN

f64_add(x, y) ==
    CASE x.k = "nan" \/ y.k = "nan" -> NaN
      [] x.k = "pinf" -> IF y.k = "ninf" THEN NaN ELSE PosInf
      [] x.k = "ninf" -> IF y.k = "pinf" THEN NaN ELSE NegInf
      [] y.k \in {"pinf", "ninf"} -> y
      [] OTHER -> Fin(x.p * y.p, x.q * y.q)

f64_sub(x, y) == f64_add(x, f64_neg(y))

cmp_int(a, b) == IF a < b THEN "Less" ELSE IF a > b THEN "Greater" ELSE "Equal"

\* f64::partial_cmp: "None" when either side is NaN
f64_partial_cmp(x, y) ==
    CASE x.k = "nan" \/ y.k = "nan" -> "None"
      [] x.k = y.k /\ x.k # "fin" -> "Equal"
      [] x.k = "ninf" \/ y.k = "pinf" -> "Less"
      [] x.k = "pinf" \/ y.k = "ninf" -> "Greater"
      [] OTHER -> cmp_int(x.p * y.q, y.p * x.q)

\* partial_cmp of (f64, usize) tuples: lexicographic
pair_partial_cmp(x, y) ==
    LET c == f64_partial_cmp(x[1], y[1])
    IN  IF c = "Equal" THEN cmp_int(x[2], y[2]) ELSE c

\* Iterator::max_by with |x, y| x.partial_cmp(y).unwrap_or(Ordering::Equal):
\* the running maximum is kept only when it compares Greater
RECURSIVE max_by(_, _)
max_by(best, rest) ==
    IF rest = <<>>
    THEN best
    ELSE max_by(IF pair_partial_cmp(best, Head(rest)) = "Greater" THEN best ELSE Head(rest),
                Tail(rest))

\* ------------------------------------------------------------------ dag
\* dag_scan that takes a frequency-0 entry for a missing one and stops there
RECURSIVE dag_scan_stopping_at_placeholder(_, _, _, _, _, _)
dag_scan_stopping_at_placeholder(F, s, k, i, wfrag, tmplist) ==
    LET word_count == Len(s)
    IN  IF i < word_count /\ trie_get_is_some(F, wfrag) /\ F[wfrag] > 0
        THEN dag_scan_stopping_at_placeholder(F, s, k, i + 1,
                      IF (i + 1) + 1 < word_count
                      THEN Slice(s, k, (i + 1) + 1)
                      ELSE Slice(s, k, word_count),
                      Append(tmplist, i))
        ELSE tmplist

\* the while loop of dag for start k: i, wfrag and tmplist are its locals
RECURSIVE dag_scan(_, _, _, _, _, _)
dag_scan(F, s, k, i, wfrag, tmplist) ==
    LET word_count == Len(s)
    IN  IF i < word_count /\ trie_get_is_some(F, wfrag)
        THEN dag_scan(F, s, k, i + 1,
                      IF (i + 1) + 1 < word_count
                      THEN Slice(s, k, (i + 1) + 1)
                      ELSE Slice(s, k, word_count),
                      IF F[wfrag] > 0 THEN Append(tmplist, i) ELSE tmplist)
        ELSE tmplist

dag(F, s) ==
    [k \in 0..(Len(s) - 1) |->
        LET tmplist == dag_scan(F, s, k, k, <<s[k + 1]>>, <<>>)
        IN  IF tmplist = <<>> THEN <<k>> ELSE tmplist]

\* ----------------------------------------------------------------- calc
\* the closure of calc: the (score, end) pair of the word s[i..=x]
calc_pair(F, logtotal, s, route, i, x) ==
    LET wfrag == Slice(s, i, x + 1)
        f == IF trie_get_is_some(F, wfrag) THEN F[wfrag] ELSE 1
    IN  <<f64_add(f64_sub(ln(f), logtotal), route[x + 1][1]), x>>

RECURSIVE calc_loop(_, _, _, _, _, _)
calc_loop(F, logtotal, s, d, i, route) ==
    IF i < 0
    THEN route
    ELSE LET pairs == [j \in 1..Len(d[i]) |-> calc_pair(F, logtotal, s, route, i, d[i][j])]
         IN  calc_loop(F, logtotal, s, d, i - 1,
                       [route EXCEPT ![i] = max_by(Head(pairs), Tail(pairs))])

calc(F, tot, s, d) ==
    calc_loop(F, ln(tot), s, d, Len(s) - 1, [i \in 0..Len(s) |-> <<Zero, 0>>])

\* ------------------------------------------------- regexes and splitter
\* Length of the match of a regex starting exactly at character index i,
\* 0 when there is none.
\*   "han":  RE_HAN_DEFAULT  ([class]+), greedy
\*   "skip": RE_SKIP_DEAFULT (\r\n|\s), the first alternative that matches
RECURSIVE han_run(_, _)
han_run(text, i) ==
    IF i < Len(text) /\ HanClass(text[i + 1]) THEN 1 + han_run(text, i + 1) ELSE 0

match_len(re, text, i) ==
    IF re = "han"
    THEN han_run(text, i)
    ELSE IF i + 1 < Len(text) /\ text[i + 1] = 13 /\ text[i + 2] = 10
    THEN 2
    ELSE IF i < Len(text) /\ IsWhitespace(text[i + 1])
    THEN 1
    ELSE 0

is_match(re, text) == \E i \in 0..(Len(text) - 1) : match_len(re, text, i) > 0

\* SplitCaptures as the sequence of items next() yields, from self.last = last:
\* per match an Unmatched span (possibly empty) then the Captured match, and
\* at the end the Unmatched rest when it is not empty
RECURSIVE SplitCaptures(_, _, _)
SplitCaptures(re, text, last) ==
    IF \E i \in last..(Len(text) - 1) : match_len(re, text, i) > 0
    THEN LET start == CHOOSE i \in last..(Len(text) - 1) :
                          /\ match_len(re, text, i) > 0
                          /\ \A j \in last..(i - 1) : match_len(re, text, j) = 0
             end == start + match_len(re, text, start)
         IN  << [captured |-> FALSE, str |-> Slice(text, last, start)],
                [captured |-> TRUE, str |-> Slice(text, start, end)] >>
             \o SplitCaptures(re, text, end)
    ELSE IF last >= Len(text)
    THEN <<>>
    ELSE << [captured |-> FALSE, str |-> Slice(text, last, Len(text))] >>

as_str(state) == state.str

\* ------------------------------------------------------------- hmm::cut
\* The HMM tables are input data: a decoding is any labelling of the
\* positions, decoded[t] telling whether position t carries E or S (closes a
\* token).  The last position always closes the open token.
Decodings == [1..(MaxLen - 1) -> BOOLEAN]

NoDecoding == [t \in 1..(MaxLen - 1) |-> FALSE]

RECURSIVE hmm_extract(_, _, _, _)
hmm_extract(buf, decoded, t, start) ==
    IF t > Len(buf)
    THEN <<>>
    ELSE IF t = Len(buf) \/ decoded[t]
    THEN <<SubSeq(buf, start, t)>> \o hmm_extract(buf, decoded, t + 1, t + 1)
    ELSE hmm_extract(buf, decoded, t + 1, start)

hmm_cut(buf, decoded) == hmm_extract(buf, decoded, 1, 1)

\* ------------------------------------------------------- cut_dag_no_hmm
\* no_hmm_loop without the flush after the loop: a buffer still open at the
\* end of the block is lost
RECURSIVE no_hmm_loop_without_last_flush(_, _, _, _, _)
no_hmm_loop_without_last_flush(s, route, x, buf, out) ==
    IF x < Len(s)
    THEN LET y == route[x][2] + 1
             l_indices == Slice(s, x, y)
         IN  IF Len(l_indices) = 1
                /\ \A i \in 1..Len(l_indices) : is_ascii_alphanumeric(l_indices[i])
             THEN no_hmm_loop_without_last_flush(s, route, y, Append(buf, l_indices[1]), out)
             ELSE no_hmm_loop_without_last_flush(s, route, y, <<>>,
                              Append(IF buf # <<>> THEN Append(out, buf) ELSE out,
                                     l_indices))
    ELSE out

\* no_hmm_loop that buffers every one-character word, as cut_dag_hmm does
RECURSIVE no_hmm_loop_buffering_any_char(_, _, _, _, _)
no_hmm_loop_buffering_any_char(s, route, x, buf, out) ==
    IF x < Len(s)
    THEN LET y == route[x][2] + 1
             l_indices == Slice(s, x, y)
         IN  IF Len(l_indices) = 1
             THEN no_hmm_loop_buffering_any_char(s, route, y, Append(buf, l_indices[1]), out)
             ELSE no_hmm_loop_buffering_any_char(s, route, y, <<>>,
                              Append(IF buf # <<>> THEN Append(out, buf) ELSE out,
                                     l_indices))
    ELSE IF buf # <<>> THEN Append(out, buf) ELSE out

RECURSIVE no_hmm_loop(_, _, _, _, _)
no_hmm_loop(s, route, x, buf, out) ==
    IF x < Len(s)
    THEN LET y == route[x][2] + 1
             l_indices == Slice(s, x, y)
         IN  IF Len(l_indices) = 1
                /\ \A i \in 1..Len(l_indices) : is_ascii_alphanumeric(l_indices[i])
             THEN no_hmm_loop(s, route, y, Append(buf, l_indices[1]), out)
             ELSE no_hmm_loop(s, route, y, <<>>,
                              Append(IF buf # <<>> THEN Append(out, buf) ELSE out,
                                     l_indices))
    ELSE IF buf # <<>> THEN Append(out, buf) ELSE out

cut_dag_no_hmm(F, tot, s) ==
    LET d == dag(F, s)
        route == calc(F, tot, s, d)
    IN  [words |-> no_hmm_loop(s, route, 0, <<>>, <<>>),
         calls |-> <<>>, dag |-> d, route |-> route]

\* ---------------------------------------------------------- cut_dag_hmm
\* flushing the buffer (lines 273-287 and again 292-305); out.calls lists the
\* buffers handed to hmm::cut
hmm_flush(F, buf, decoded, out) ==
    IF buf = <<>>
    THEN out
    ELSE IF Len(buf) = 1
    THEN [words |-> Append(out.words, buf), calls |-> out.calls]
    ELSE IF ~trie_get_is_some(F, buf)
    THEN [words |-> out.words \o hmm_cut(buf, decoded), calls |-> Append(out.calls, buf)]
    ELSE [words |-> out.words \o [i \in 1..Len(buf) |-> <<buf[i]>>], calls |-> out.calls]

RECURSIVE hmm_loop(_, _, _, _, _, _, _)
hmm_loop(F, s, route, decoded, x, buf, out) ==
    IF x < Len(s)
    THEN LET y == route[x][2] + 1
             l_indices == Slice(s, x, y)
         IN  IF Len(l_indices) = 1
             THEN hmm_loop(F, s, route, decoded, y, Append(buf, l_indices[1]), out)
             ELSE LET flushed == hmm_flush(F, buf, decoded, out)
                  IN  hmm_loop(F, s, route, decoded, y, <<>>,
                               [words |-> Append(flushed.words, l_indices),
                                calls |-> flushed.calls])
    ELSE hmm_flush(F, buf, decoded, out)

cut_dag_hmm(F, tot, s, decoded) ==
    LET d == dag(F, s)
        route == calc(F, tot, s, d)
        r == hmm_loop(F, s, route, decoded, 0, <<>>, [words |-> <<>>, calls |-> <<>>])
    IN  [words |-> r.words, calls |-> r.calls, dag |-> d, route |-> route]

\* ------------------------------------------------------------------ cut
\* skip_loop that pushes an unmatched span whole instead of its characters
RECURSIVE skip_loop_pushing_spans(_)
skip_loop_pushing_spans(states) ==
    IF states = <<>>
    THEN <<>>
    ELSE LET x == as_str(Head(states))
         IN  (IF x = <<>> THEN <<>> ELSE <<x>>) \o skip_loop_pushing_spans(Tail(states))

\* the else branch of cut (lines 324-339): the tokens of an other block
RECURSIVE skip_loop(_)
skip_loop(states) ==
    IF states = <<>>
    THEN <<>>
    ELSE LET x == as_str(Head(states))
         IN  (IF x = <<>>
              THEN <<>>
              ELSE IF is_match("skip", x)
              THEN <<x>>
              ELSE [i \in 1..Len(x) |-> <<x[i]>>])
             \o skip_loop(Tail(states))

\* the body of the for loop of cut for one non-empty block
cut_block(F, tot, block, use_hmm, decoded) ==
    IF is_match("han", block)
    THEN LET r == IF use_hmm
                  THEN cut_dag_hmm(F, tot, block, decoded)
                  ELSE cut_dag_no_hmm(F, tot, block)
         IN  [text |-> block, han |-> TRUE, words |-> r.words, calls |-> r.calls,
              dag |-> r.dag, route |-> r.route]
    ELSE [text |-> block, han |-> FALSE,
          words |-> skip_loop(SplitCaptures("skip", block, 0)),
          calls |-> <<>>, dag |-> <<>>, route |-> <<>>]

RECURSIVE cut_loop(_, _, _, _, _)
cut_loop(F, tot, states, use_hmm, decoded) ==
    IF states = <<>>
    THEN <<>>
    ELSE LET block == as_str(Head(states))
         IN  (IF block = <<>>
              THEN <<>>
              ELSE <<cut_block(F, tot, block, use_hmm, decoded)>>)
             \o cut_loop(F, tot, Tail(states), use_hmm, decoded)

cut(F, tot, s, use_hmm, decoded) ==
    LET bs == cut_loop(F, tot, SplitCaptures("han", s, 0), use_hmm, decoded)
    IN  [words |-> Concat([i \in 1..Len(bs) |-> bs[i].words]), blocks |-> bs]

\* -------------------------------------------------------- state machine
\* Jieba { freq: Trie::new(), total: 0 } inside new(), before the default
\* dictionary is loaded
Init ==
    /\ freq = <<>>
    /\ total = 0
    /\ pc = "new"
    /\ stream = <<>>
    /\ ret = "None"
    /\ sentence = <<>>
    /\ hmm = FALSE
    /\ words = <<>>
    /\ blocks = <<>>

\* DEFAULT_DICT is a file compiled into the program and known to load
\* (tests::test_init_with_default_dict): some stream of well-formed records
\* with a positive total.
DefaultDicts ==
    {dict \in Streams :
        /\ \A i \in 1..Len(dict) : dict[i] \in GoodLines
        /\ load_dict(<<>>, 0, dict).total > 0}

\* the rest of new(): instance.load_dict(&mut default_dict).unwrap()
New(dict) ==
    /\ pc = "new"
    /\ \E r \in {load_dict(freq, total, dict)} :
           /\ freq' = r.freq
           /\ total' = r.total
           /\ ret' = r.ret
           /\ pc' = IF r.ret = "Ok" THEN "loaded" ELSE "aborted"
    /\ stream' = dict
    /\ UNCHANGED <<sentence, hmm, words, blocks>>

\* a caller's load_dict(dict) on the instance
LoadDict(dict) ==
    /\ pc = "ready"
    /\ \E r \in {load_dict(freq, total, dict)} :
           /\ freq' = r.freq
           /\ total' = r.total
           /\ ret' = r.ret
           /\ pc' = IF r.ret = "Panic" THEN "aborted" ELSE "loaded"
    /\ stream' = dict
    /\ UNCHANGED <<sentence, hmm, words, blocks>>

\* cut(sentence, hmm)
Cut(s, use_hmm, decoded) ==
    /\ pc = "ready"
    /\ \E r \in {cut(freq, total, s, use_hmm, decoded)} :
           /\ words' = r.words
           /\ blocks' = r.blocks
    /\ sentence' = s
    /\ hmm' = use_hmm
    /\ pc' = "done"
    /\ UNCHANGED <<freq, total, stream, ret>>

\* the caller is done with the value a call returned and goes on
Continue ==
    /\ pc \in {"loaded", "done"}
    /\ pc' = "ready"
    /\ stream' = <<>>
    /\ ret' = "None"
    /\ sentence' = <<>>
    /\ hmm' = FALSE
    /\ words' = <<>>
    /\ blocks' = <<>>
    /\ UNCHANGED <<freq, total>>

\* The decoding is an input of a call only as far as hmm::cut reads it: up
\* to the last position but one of the longest buffer the call hands over.
DecodingsFor(s, use_hmm) ==
    IF use_hmm
    THEN LET bs == cut(freq, total, s, TRUE, NoDecoding).blocks
             read == {t \in 1..(MaxLen - 1) :
                        \E i \in 1..Len(bs) : \E j \in 1..Len(bs[i].calls) :
                            t < Len(bs[i].calls[j])}
         IN  {d \in Decodings : \A t \in 1..(MaxLen - 1) : d[t] => t \in read}
    ELSE {NoDecoding}

Next ==
    \/ pc = "new" /\ \E dict \in DefaultDicts : New(dict)
    \/ pc = "ready" /\ \E dict \in Streams : LoadDict(dict)
    \/ pc = "ready" /\ \E s \in Strings(MaxLen), use_hmm \in BOOLEAN :
          \E decoded \in DecodingsFor(s, use_hmm) : Cut(s, use_hmm, decoded)
    \/ Continue

Spec == Init /\ [][Next]_vars

\* ================================================================ claims
Range(f) == {f[i] : i \in DOMAIN f}

OtherBlocks == {i \in 1..Len(blocks) : ~blocks[i].han}

DictBlocks == {i \in 1..Len(blocks) : blocks[i].han}

IsWord(w) == w \in DOMAIN freq /\ freq[w] > 0

\* the words the route walk takes through a block, left to right
RECURSIVE RouteWords(_, _, _)
RouteWords(route, text, x) ==
    IF x >= Len(text)
    THEN <<>>
    ELSE <<Slice(text, x, route[x][2] + 1)>> \o RouteWords(route, text, route[x][2] + 1)

\* -- C1 ------------------------------------------------------------------
\* C1: the tokens cut returns, concatenated in order, are exactly the input
\* sentence, for either value of use_hmm.
C1_ConcatPreserved == pc = "done" => Concat(words) = sentence

\* a call with HMM that handed a buffer to hmm::cut and also met an other block
C1_Witness ==
    /\ pc = "done" /\ hmm
    /\ \E i \in DictBlocks : blocks[i].calls # <<>>
    /\ OtherBlocks # {}
    /\ Len(words) >= 2

\* -- C2 ------------------------------------------------------------------
Malformed(line) ==
    LET parts == split(trim(line), 32)
    IN  Len(parts) < 2 \/ ~parse_usize(parts[2]).ok

\* the stream holds a malformed line and every line up to it can be read
ReadsMalformed(dict) ==
    \E i \in 1..Len(dict) :
        /\ Malformed(dict[i])
        /\ \A j \in 1..i : ~read_line_fails(dict[j])

\* C2: a load_dict call on a stream with a malformed line (no frequency
\* field, or a frequency that is no decimal integer) returns the BadDictionary
\* error to its caller: it neither aborts nor succeeds.
C2_MalformedReturnsBadDictionary ==
    (pc \in {"loaded", "aborted"} /\ ReadsMalformed(stream))
        => (ret = "BadDictionary" /\ pc # "aborted")

\* -- C3 ------------------------------------------------------------------
RECURSIVE StreamSum(_)
StreamSum(dict) ==
    IF dict = <<>>
    THEN 0
    ELSE parse_usize(split(trim(Head(dict)), 32)[2]).val + StreamSum(Tail(dict))

\* C3: total is additive over successful load_dict calls: it is the sum of
\* the frequencies of the records of all of them.  It starts at 0, so this is
\* the same as: every successful call adds the sum of its own records.
C3_TotalAdditive ==
    [][(pc' = "loaded" /\ ret' = "Ok") => total' = total + StreamSum(stream')]_vars

\* -- C4 ------------------------------------------------------------------
AllWhitespace(t) == \A i \in 1..Len(t) : IsWhitespace(t[i])

\* C4 as claimed: in an other block every maximal run of whitespace is one
\* token and every other character is a token of its own.
C4_WhitespaceRunsFused ==
    pc = "done" =>
        \A i \in OtherBlocks :
            LET ts == blocks[i].words
            IN  /\ Concat(ts) = blocks[i].text
                /\ \A j \in 1..Len(ts) :
                      \/ Len(ts[j]) = 1 /\ ~IsWhitespace(ts[j][1])
                      \/ /\ ts[j] # <<>>
                         /\ AllWhitespace(ts[j])
                         /\ j > 1 => ~AllWhitespace(ts[j - 1])
                         /\ j < Len(ts) => ~AllWhitespace(ts[j + 1])

\* C4 as amended: in an other block every token is one whitespace atom (the
\* pair \r\n, or else a single whitespace character) or one non-whitespace
\* character; a \r directly followed by \n is never split.
C4_WhitespaceAtoms ==
    pc = "done" =>
        \A i \in OtherBlocks :
            LET ts == blocks[i].words
            IN  /\ Concat(ts) = blocks[i].text
                /\ \A j \in 1..Len(ts) : Len(ts[j]) = 1 \/ ts[j] = <<13, 10>>
                /\ \A j \in 1..(Len(ts) - 1) : ~(ts[j] = <<13>> /\ ts[j + 1] = <<10>>)

\* an other block holding two adjacent whitespace characters that are no \r\n pair
C4_Witness ==
    /\ pc = "done"
    /\ \E i \in OtherBlocks :
          LET t == blocks[i].text
          IN  /\ \E j \in 1..(Len(t) - 1) :
                    /\ IsWhitespace(t[j]) /\ IsWhitespace(t[j + 1])
                    /\ ~(t[j] = 13 /\ t[j + 1] = 10)
              /\ Len(blocks[i].words) = Len(t)

\* -- C5 ------------------------------------------------------------------
\* the dictionary-eligible characters as claimed: Han, ASCII letters and
\* digits, and + # & . _ % -
ClaimedEligible(c) ==
    IsHan(c) \/ is_ascii_alphanumeric(c) \/ c \in {43, 35, 38, 46, 95, 37, 45}

\* C5: the blocks cut works on are the maximal runs of eligible characters
\* (dictionary blocks) and the maximal runs of the other characters (other
\* blocks), eligible being: Han U+4E00..U+9FD5, ASCII letter or digit, or one
\* of + # & . _ % -
C5_EligibleCharacters ==
    pc = "done" =>
        /\ Concat([i \in 1..Len(blocks) |-> blocks[i].text]) = sentence
        /\ \A i \in 1..Len(blocks) :
              /\ \A j \in 1..Len(blocks[i].text) :
                    ClaimedEligible(blocks[i].text[j]) <=> blocks[i].han
              /\ i > 1 => blocks[i].han # blocks[i - 1].han

\* -- C6 ------------------------------------------------------------------
Bufferable(w) == Len(w) = 1 /\ is_ascii_alphanumeric(w[1])

\* the route words at which a token starts: every word that is not buffered,
\* and the first word of every run of buffered words
TokenStarts(rw) ==
    {i \in 1..Len(rw) : ~Bufferable(rw[i]) \/ i = 1 \/ ~Bufferable(rw[i - 1])}

\* the last route word of the token that starts at route word i
TokenEnd(rw, i) ==
    CHOOSE j \in i..Len(rw) :
        /\ \A k \in (i + 1)..j : k \notin TokenStarts(rw)
        /\ j = Len(rw) \/ (j + 1) \in TokenStarts(rw)

\* C6: without HMM, the tokens of a dictionary block are, in order, one fused
\* token per maximal run of route words that are single ASCII alphanumeric
\* characters, and every other route word unchanged.
C6_AlnumRunsFused ==
    (pc = "done" /\ ~hmm) =>
        \A b \in DictBlocks :
            LET rw == RouteWords(blocks[b].route, blocks[b].text, 0)
                starts == TokenStarts(rw)
                ts == blocks[b].words
            IN  /\ Len(ts) = Cardinality(starts)
                /\ \A i \in starts :
                      ts[Cardinality({j \in starts : j <= i})]
                          = Concat(SubSeq(rw, i, TokenEnd(rw, i)))

\* a run of two buffered words, fused, followed by a word that is not buffered
C6_Witness ==
    /\ pc = "done" /\ ~hmm
    /\ \E b \in DictBlocks :
          LET rw == RouteWords(blocks[b].route, blocks[b].text, 0)
          IN  /\ Len(rw) = 3
              /\ Bufferable(rw[1]) /\ Bufferable(rw[2]) /\ ~Bufferable(rw[3])
              /\ blocks[b].words = <<rw[1] \o rw[2], rw[3]>>

\* -- C7 ------------------------------------------------------------------
\* every path through the DAG from position k, as the list of its word ends
RECURSIVE PathsFrom(_, _, _)
PathsFrom(d, n, k) ==
    IF k >= n
    THEN {<<>>}
    ELSE UNION { {<<d[k][j]>> \o p : p \in PathsFrom(d, n, d[k][j] + 1)} :
                 j \in 1..Len(d[k]) }

\* the score of a word under the rule of the claim: an absent word and a
\* word stored with frequency 0 both count as frequency 1
ClaimedWordScore(w) ==
    f64_sub(ln(IF IsWord(w) THEN freq[w] ELSE 1), ln(total))

RECURSIVE ClaimedPathScore(_, _, _)
ClaimedPathScore(text, path, k) ==
    IF path = <<>>
    THEN Zero
    ELSE f64_add(ClaimedWordScore(Slice(text, k, Head(path) + 1)),
                 ClaimedPathScore(text, Tail(path), Head(path) + 1))

\* C7: route[0].logprob is at least the score of every path through the DAG,
\* words scored ln(f) - ln(total) with f = 1 for absent and for frequency-0
\* entries.
C7_RouteOptimal ==
    pc = "done" =>
        \A b \in DictBlocks :
            \A path \in PathsFrom(blocks[b].dag, Len(blocks[b].text), 0) :
                f64_partial_cmp(ClaimedPathScore(blocks[b].text, path, 0),
                                blocks[b].route[0][1]) \in {"Less", "Equal"}

\* -- C8 ------------------------------------------------------------------
SingleChar(w) == Len(w) = 1

\* the buffers cut_dag_hmm flushes: the maximal runs of one-character route words
Buffers(rw) ==
    { Concat(SubSeq(rw, i, j)) : <<i, j>> \in
        { r \in (1..Len(rw)) \X (1..Len(rw)) :
            /\ r[1] <= r[2]
            /\ \A k \in r[1]..r[2] : SingleChar(rw[k])
            /\ r[1] = 1 \/ ~SingleChar(rw[r[1] - 1])
            /\ r[2] = Len(rw) \/ ~SingleChar(rw[r[2] + 1]) } }

\* C8: with HMM, a flushed buffer of two or more characters goes to the HMM
\* segmenter exactly when it is not a dictionary word (frequency > 0); a
\* frequency-0 placeholder is not a dictionary word.
C8_HmmUnlessWord ==
    (pc = "done" /\ hmm) =>
        \A b \in DictBlocks :
            \A buf \in Buffers(RouteWords(blocks[b].route, blocks[b].text, 0)) :
                Len(buf) >= 2 => (buf \in Range(blocks[b].calls) <=> ~IsWord(buf))

\* -- C9 ------------------------------------------------------------------
\* C9: for every position k of a block, ends(k) is the strictly ascending
\* list of all e >= k with text[k..=e] a dictionary word (frequency > 0), or
\* [k] when there is none; the DAG has exactly the keys 0..n-1.
C9_DagEnds ==
    pc = "done" =>
        \A b \in DictBlocks :
            LET text == blocks[b].text
                d == blocks[b].dag
                n == Len(text)
            IN  /\ DOMAIN d = 0..(n - 1)
                /\ \A k \in 0..(n - 1) :
                      LET E == {e \in k..(n - 1) : IsWord(Slice(text, k, e + 1))}
                      IN  /\ Range(d[k]) = IF E = {} THEN {k} ELSE E
                          /\ \A i \in 1..(Len(d[k]) - 1) : d[k][i] < d[k][i + 1]
                          /\ d[k] # <<>>

\* a position with two ends and, between them, a frequency-0 entry that is skipped
C9_Witness ==
    /\ pc = "done"
    /\ \E b \in DictBlocks :
          /\ Len(blocks[b].text) = 3
          /\ blocks[b].dag[0] = <<0, 2>>
          /\ Slice(blocks[b].text, 0, 2) \in DOMAIN freq

\* -- C10 -----------------------------------------------------------------
PrefixClosed ==
    \A w \in DOMAIN freq :
        freq[w] > 0 => \A i \in 1..(Len(w) - 1) : SubSeq(w, 1, i) \in DOMAIN freq

RecordWords(dict) ==
    {split(trim(dict[i]), 32)[1] : i \in {j \in 1..Len(dict) : ~read_line_fails(dict[j])}}

\* a load changes the frequency of no existing entry other than the words of
\* its records, and removes none
PlaceholderKeeps ==
    pc' \in {"loaded", "aborted"} =>
        \A w \in DOMAIN freq :
            /\ w \in DOMAIN freq'
            /\ w \notin RecordWords(stream') => freq'[w] = freq[w]

\* C10: every non-empty strict prefix of every word of frequency > 0 is a key
\* of the dictionary, whatever was loaded and in whatever order, and the
\* insertion of prefix placeholders replaces no existing frequency.
C10_PrefixClosure == []PrefixClosed /\ [][PlaceholderKeeps]_vars

\* a load of a three-character word whose first prefix was a word already and
\* kept its frequency, and whose second prefix is a placeholder
C10_Witness ==
    /\ pc = "loaded" /\ ret = "Ok"
    /\ \E w \in DOMAIN freq :
          /\ Len(w) = 3 /\ freq[w] > 0
          /\ w \in RecordWords(stream)
          /\ SubSeq(w, 1, 1) \notin RecordWords(stream)
          /\ freq[SubSeq(w, 1, 1)] > 0
          /\ freq[SubSeq(w, 1, 2)] = 0

====
